---- MODULE Spec2Model ----
(***************************************************************************)
(* Persistence coordinator of the workout tracker (services/storage.ts):   *)
(* an in-memory cache (dataCache), the browser's localStorage and an       *)
(* optional GitHub contents API file, with the domain operations that run  *)
(* load -> mutate in place -> save on top of them.                         *)
(***************************************************************************)
EXTENDS Integers, Sequences, FiniteSets, TLC

VARIABLES
    config,     \* localStorage[CONFIG_KEY] holds a config (TRUE) or nothing
    local,      \* localStorage[STORAGE_KEY]: NoItem or a stored text
    remote,     \* the file behind the contents API
    dataCache,  \* the module variable dataCache: a reference
    SEED_DATA,  \* the module object SEED_DATA (mutable: load hands it out)
    now,        \* Date.now()
    pc,         \* per call: where the async function is suspended
    op,         \* per call: the domain operation and its arguments
    data,       \* per call: the reference `data` returned by loadData
    req,        \* per call: the request in flight (the PUT body)
    out,        \* per call: its progress (requests answered, alerts raised)
    hist,       \* outcome of the call that completed last
    calls,      \* number of domain operations invoked so far
    mIn,        \* harness of the pure functions: the input value
    mOut,       \* harness: the result (migrateData(mIn), getLogsForComparison)
    mOut2       \* migration harness: migrateData applied to mOut

vars == <<config, local, remote, dataCache, SEED_DATA, now, pc, op, data, req,
          out, hist, calls, mIn, mOut, mOut2>>

(***************************************************************************)
(* Bounds of the model.                                                    *)
(***************************************************************************)
MaxCalls == 2      \* domain operations invoked in one run
MaxTime == 1       \* Date.now() ranges over 0..MaxTime
MaxListLen == 2    \* migration harness: length of the exercise lists tried

Procs == {1, 2}
Users == {"Adam", "Elia"}
Randoms == {0, 1}   \* Math.random(): two draws are equal or differ

(***************************************************************************)
(* JavaScript values.  A property of a parsed object is a tagged value:    *)
(* undefined, null, a number, a string or an array (items).  Strings that  *)
(* the user types (names) are sequences of UTF-16 code units; identifiers  *)
(* are sequences of tokens so that `adam_${e.id}` is a concatenation.      *)
(***************************************************************************)
Undef == [t |-> "undef", items |-> <<>>]
Null == [t |-> "null", items |-> <<>>]
Zero == [t |-> "zero", items |-> <<>>]
Num == [t |-> "num", items |-> <<>>]
EmptyStr == [t |-> "emptystr", items |-> <<>>]
Str == [t |-> "str", items |-> <<>>]
Arr(s) == [t |-> "arr", items |-> s]

\* ToBoolean: undefined, null, 0 and "" are falsy; arrays (even []) are truthy
Truthy(v) == v.t \in {"num", "str", "arr"}
\* a || []
OrEmpty(v) == IF Truthy(v) THEN v ELSE Arr(<<>>)
\* a.length > 0 : undefined > 0 is false for numbers; the string "ab" has length 2
LengthPositive(v) ==
    CASE v.t = "arr" -> Len(v.items) > 0
      [] v.t = "str" -> TRUE
      [] OTHER -> FALSE
IsArray(v) == v.t = "arr"

NoFields == [adamExercises |-> Undef, eliaExercises |-> Undef,
             exercises |-> Undef, logs |-> Undef]
\* a parsed JSON value: null, a primitive or array (no named properties), or an object
JNull == [t |-> "null", f |-> NoFields]
JPrim(k) == [t |-> k, f |-> NoFields]
JObj(f) == [t |-> "object", f |-> f]

AppData(a, e, l) ==
    JObj([adamExercises |-> a, eliaExercises |-> e, exercises |-> Undef, logs |-> l])

Exercise(id, name, category) == [id |-> id, name |-> name, category |-> category]

\* code units: "S" (ASCII), "Ж" (outside Latin-1)
NameSquat == <<83>>
NameBench == <<66>>
NameWide == <<1046>>
CatLegs == <<76>>
CatChest == <<67>>

withAdamId(e) == [e EXCEPT !.id = <<"adam_">> \o e.id]
withEliaId(e) == [e EXCEPT !.id = <<"elia_">> \o e.id]
\* list.map(e => ({ ...e, id: `adam_${e.id}` })) and its elia_ twin
mapAdamId(s) == [i \in 1..Len(s) |-> withAdamId(s[i])]
mapEliaId(s) == [i \in 1..Len(s) |-> withEliaId(s[i])]

DEFAULT_EXERCISES ==
    << Exercise(<<"ex_1">>, NameBench, CatChest),
       Exercise(<<"ex_2">>, NameSquat, CatLegs),
       Exercise(<<"ex_3">>, <<68>>, <<66>>),
       Exercise(<<"ex_4">>, <<79>>, <<83>>) >>

SeedValue ==
    AppData(Arr(mapAdamId(DEFAULT_EXERCISES)),
            Arr(mapEliaId(DEFAULT_EXERCISES)),
            Arr(<<>>))

(***************************************************************************)
(* migrateData.  A result is [st, v]: st = "threw" is a thrown TypeError.  *)
(***************************************************************************)
Threw == [st |-> "threw", v |-> JNull]
Returned(v) == [st |-> "returned", v |-> v]
Pending == [st |-> "none", v |-> JNull]

\* the function without its new-format early return: every input is split
migrateDataNoPassThrough(d) ==
    IF d.t = "null" THEN Threw
    ELSE LET sharedExercises == OrEmpty(d.f.exercises)
         IN IF ~IsArray(sharedExercises) THEN Threw
            ELSE Returned(AppData(Arr(mapAdamId(sharedExercises.items)),
                                  Arr(mapEliaId(sharedExercises.items)),
                                  OrEmpty(d.f.logs)))

\* the legacy split without the per-user prefix: both users get the shared ids
migrateDataSharedIds(d) ==
    IF d.t = "null" THEN Threw
    ELSE IF LengthPositive(OrEmpty(d.f.adamExercises))
              \/ LengthPositive(OrEmpty(d.f.eliaExercises)) \/ ~Truthy(d.f.exercises)
         THEN Returned(AppData(OrEmpty(d.f.adamExercises), OrEmpty(d.f.eliaExercises),
                               OrEmpty(d.f.logs)))
         ELSE IF ~IsArray(d.f.exercises) THEN Threw
              ELSE Returned(AppData(d.f.exercises, d.f.exercises, OrEmpty(d.f.logs)))

migrateData(d) ==
    IF d.t = "null" THEN Threw   \* data.adamExercises on null
    ELSE LET adamExercises == OrEmpty(d.f.adamExercises)
             eliaExercises == OrEmpty(d.f.eliaExercises)
             logs == OrEmpty(d.f.logs)
         IN IF LengthPositive(adamExercises) \/ LengthPositive(eliaExercises)
               \/ ~Truthy(d.f.exercises)
            THEN Returned(AppData(adamExercises, eliaExercises, logs))
            ELSE \* sharedExercises.map is not a function unless it is an array
                 IF ~IsArray(d.f.exercises) THEN Threw
                 ELSE Returned(AppData(Arr(mapAdamId(d.f.exercises.items)),
                                       Arr(mapEliaId(d.f.exercises.items)),
                                       logs))

\* the older copy of the function kept in src/services/storage.ts
migrateDataV1(d) ==
    IF d.t = "null" THEN Threw
    ELSE IF Truthy(d.f.adamExercises) /\ Truthy(d.f.eliaExercises)
         THEN Returned(d)        \* return data as AppData
         ELSE LET shared == OrEmpty(d.f.exercises)
              IN IF ~IsArray(shared) THEN Threw
                 ELSE Returned(AppData(Arr(mapAdamId(shared.items)),
                                       Arr(mapEliaId(shared.items)),
                                       OrEmpty(d.f.logs)))

(***************************************************************************)
(* Stored texts.  localStorage holds a string or nothing; the contents API *)
(* holds base64 of the file's bytes.                                       *)
(***************************************************************************)
NoItem == [k |-> "none", v |-> JNull]        \* getItem(...) === null
Garbage == [k |-> "garbage", v |-> JNull]    \* a string that is not JSON
JSONstringify(v) == [k |-> "json", v |-> v]
JSONparse(text) == IF text.k = "json" THEN Returned(text.v) ELSE Threw

\* the code units of the user-typed strings of a document's JSON text
UnitsOfExercises(fv) ==
    IF IsArray(fv)
    THEN UNION {{fv.items[i].name[j] : j \in 1..Len(fv.items[i].name)}
                  \cup {fv.items[i].category[j] : j \in 1..Len(fv.items[i].category)}
                : i \in 1..Len(fv.items)}
    ELSE {}
CodeUnits(text) ==
    UnitsOfExercises(text.v.f.adamExercises) \cup UnitsOfExercises(text.v.f.eliaExercises)
        \cup UnitsOfExercises(text.v.f.exercises)

Latin1Max == 255
NoContent == [enc |-> "none", text |-> NoItem]
BadBase64 == [enc |-> "bad", text |-> NoItem]
\* btoa: InvalidCharacterError when a code unit is outside Latin-1
btoa(text) ==
    IF \E c \in CodeUnits(text) : c > Latin1Max
    THEN [st |-> "threw", c |-> NoContent]
    ELSE [st |-> "returned", c |-> [enc |-> "b64", text |-> text]]
\* atob: the binary string behind valid base64, else a thrown error
atob(content) ==
    IF content.enc = "b64" THEN [st |-> "returned", text |-> content.text]
    ELSE [st |-> "threw", text |-> NoItem]

\* the contents API: the file and its blob sha (a hash of the content)
NoSha == NoContent
blobSha(content) == content
NoFile == [exists |-> FALSE, content |-> NoContent]
File(content) == [exists |-> TRUE, content |-> content]

(***************************************************************************)
(* References.  loadData returns either SEED_DATA itself or a freshly      *)
(* built object; dataCache holds the same reference.                       *)
(***************************************************************************)
NullRef == [ref |-> "null", v |-> JNull]
SeedRef == [ref |-> "seed", v |-> JNull]
OwnRef(v) == [ref |-> "own", v |-> v]
Deref(r) == IF r.ref = "seed" THEN SEED_DATA ELSE r.v

(***************************************************************************)
(* Documents of the domain.                                                *)
(***************************************************************************)
WorkoutSet(id, weight, reps, timestamp) ==
    [id |-> id, weight |-> weight, reps |-> reps, timestamp |-> timestamp]
WorkoutLog(id, exerciseId, user, date, sets) ==
    [id |-> id, exerciseId |-> exerciseId, user |-> user, date |-> date, sets |-> sets]

\* Array.prototype.findIndex over the indices (1-based) that pass the test:
\* the first of them, 0 for -1
findIndex(hits) ==
    IF hits = {} THEN 0 ELSE CHOOSE i \in hits : \A j \in hits : i <= j

catalog(d, user) == IF user = "Adam" THEN d.f.adamExercises ELSE d.f.eliaExercises
withCatalog(d, user, fv) ==
    IF user = "Adam" THEN [d EXCEPT !.f.adamExercises = fv]
    ELSE [d EXCEPT !.f.eliaExercises = fv]

\* saveExercise without the lookup: the exercise is always pushed
saveExerciseAlwaysPush(d, exercise, user) ==
    LET exercises == catalog(d, user)
    IN IF ~IsArray(exercises) THEN Threw
       ELSE Returned(withCatalog(d, user, Arr(Append(exercises.items, exercise))))

\* saveExercise, lines 173-176: replace at idx, else push
saveExerciseBody(d, exercise, user) ==
    LET exercises == catalog(d, user)
    IN IF ~IsArray(exercises) THEN Threw   \* exercises.findIndex is not a function
       ELSE LET idx == findIndex({k \in 1..Len(exercises.items) : exercises.items[k].id = exercise.id})
            IN Returned(withCatalog(d, user,
                   IF idx > 0 THEN Arr([exercises.items EXCEPT ![idx] = exercise])
                   ELSE Arr(Append(exercises.items, exercise))))

\* deleteExercise that also drops the logs of the removed exercise
deleteExerciseCascade(d, id, user) ==
    LET exercises == catalog(d, user)
    IN IF ~IsArray(exercises) THEN Threw
       ELSE Returned([withCatalog(d, user,
                          Arr(SelectSeq(exercises.items, LAMBDA e : e.id # id)))
                      EXCEPT !.f.logs = IF IsArray(d.f.logs)
                                       THEN Arr(SelectSeq(d.f.logs.items,
                                                LAMBDA l : l.exerciseId # id))
                                       ELSE d.f.logs])

\* deleteExercise, lines 182-186
deleteExerciseBody(d, id, user) ==
    LET exercises == catalog(d, user)
    IN IF ~IsArray(exercises) THEN Threw
       ELSE Returned(withCatalog(d, user,
                Arr(SelectSeq(exercises.items, LAMBDA e : e.id # id))))

\* addSet, lines 220-240; t is Date.now(), rnd is Math.random()
addSetAlwaysPush(d, user, exerciseId, weight, reps, dateStr, t, rnd) ==
    IF ~IsArray(d.f.logs) THEN Threw
    ELSE LET newSet == WorkoutSet(<<t, rnd>>, weight, reps, t)
         IN Returned([d EXCEPT !.f.logs = Arr(Append(d.f.logs.items,
                WorkoutLog(t, exerciseId, user, dateStr, <<newSet>>)))])

addSetBody(d, user, exerciseId, weight, reps, dateStr, t, rnd) ==
    IF ~IsArray(d.f.logs) THEN Threw       \* data.logs.find is not a function
    ELSE LET logs == d.f.logs.items
             i == findIndex({k \in 1..Len(logs) : logs[k].user = user /\ logs[k].exerciseId = exerciseId
                                              /\ logs[k].date = dateStr})
             newSet == WorkoutSet(<<t, rnd>>, weight, reps, t)
         IN IF i > 0
            THEN Returned([d EXCEPT !.f.logs =
                     Arr([logs EXCEPT ![i].sets = Append(logs[i].sets, newSet)])])
            ELSE Returned([d EXCEPT !.f.logs =
                     Arr(Append(logs, WorkoutLog(t, exerciseId, user, dateStr, <<newSet>>)))])

\* deleteSet, lines 246-255; st = "noop" is the early return of line 248
NoOp(d) == [st |-> "noop", v |-> d]
deleteSetKeepEmpty(d, logId, setId) ==
    IF ~IsArray(d.f.logs) THEN Threw
    ELSE LET logs == d.f.logs.items
             logIndex == findIndex({k \in 1..Len(logs) : logs[k].id = logId})
         IN IF logIndex = 0 THEN NoOp(d)
            ELSE Returned([d EXCEPT !.f.logs = Arr([logs EXCEPT ![logIndex].sets =
                     SelectSeq(logs[logIndex].sets, LAMBDA x : x.id # setId)])])

deleteSetBody(d, logId, setId) ==
    IF ~IsArray(d.f.logs) THEN Threw
    ELSE LET logs == d.f.logs.items
             logIndex == findIndex({k \in 1..Len(logs) : logs[k].id = logId})
         IN IF logIndex = 0 THEN NoOp(d)
            ELSE LET sets == SelectSeq(logs[logIndex].sets, LAMBDA x : x.id # setId)
                     filtered == [logs EXCEPT ![logIndex].sets = sets]
                 IN IF Len(sets) = 0
                    THEN Returned([d EXCEPT !.f.logs =
                             Arr(SelectSeq(filtered, LAMBDA l : l.id # logId))])
                    ELSE Returned([d EXCEPT !.f.logs = Arr(filtered)])

\* getAllLogsForExercise, lines 213-216, on the loaded document
getAllLogsForExercise(d, exerciseId) ==
    IF IsArray(d.f.logs) THEN SelectSeq(d.f.logs.items, LAMBDA l : l.exerciseId = exerciseId)
    ELSE <<>>

(***************************************************************************)
(* The calls.  A call is one domain operation: loadData, then its body,    *)
(* then saveData.  pc is where the call is suspended:                      *)
(*   idle       no call in this slot                                       *)
(*   load_wait  loadData awaits the GET of line 104                        *)
(*   loaded     loadData has returned; the caller's await has not resumed  *)
(*   sha_wait   saveData awaits the GET of line 141                        *)
(*   put_wait   saveData awaits the PUT of line 149                        *)
(***************************************************************************)
NoExercise == Exercise(<<>>, <<>>, <<>>)
NoSuchLog == 0 - 9
NoSuchSet == <<0 - 9, 0>>
Weight == 100
Reps == 5

Op(kind, user, exercise, id, exerciseId, date, logId, setId, rnd) ==
    [kind |-> kind, user |-> user, exercise |-> exercise, id |-> id,
     exerciseId |-> exerciseId, date |-> date, logId |-> logId, setId |-> setId,
     rnd |-> rnd]
NoOpCall == Op("none", "Adam", NoExercise, <<>>, <<>>, "", NoSuchLog, NoSuchSet, 0)

\* hist: the outcome of the call that completed last
\* reqsOk: every call completed so far ran with a config, had each of its
\* requests answered successfully and loaded the remote document; putsOk: each of their saves had its put accepted
NoHist == [fin |-> "-", kind |-> "none", src |-> "-", get |-> "-", shaGet |-> "-",
           put |-> "-", alerts |-> 0, solo |-> FALSE, saved |-> FALSE, d |-> JNull,
           cfg |-> FALSE, reqsOk |-> TRUE, putsOk |-> TRUE]
\* out: the progress of a call that is running
NoOut == [src |-> "-", get |-> "-", shaGet |-> "-", put |-> "-", alerts |-> 0,
          solo |-> FALSE, after |-> NoHist, saved |-> FALSE, d |-> JNull,
          cfg |-> FALSE]
NoReq == [content |-> NoContent, sha |-> NoSha]

\* documents that exist before the first call
Log0 == WorkoutLog(0 - 1, <<"adam_", "ex_1">>, "Adam", "2024-01-01",
                   <<WorkoutSet(<<0 - 1, 0>>, Weight, Reps, 0 - 1)>>)
LegacyDoc0 ==
    JObj([adamExercises |-> Undef, eliaExercises |-> Undef,
          exercises |-> Arr(<<Exercise(<<"ex_1">>, NameSquat, CatLegs)>>),
          logs |-> Arr(<<Log0>>)])
Doc0 ==
    AppData(Arr(<<Exercise(<<"adam_", "ex_1">>, NameSquat, CatLegs)>>),
            Arr(<<Exercise(<<"elia_", "ex_1">>, NameSquat, CatLegs)>>),
            Arr(<<Log0>>))

RemoteDoc0 == File([enc |-> "b64", text |-> JSONstringify(Doc0)])
RemoteGarbage == File([enc |-> "b64", text |-> Garbage])
\* what the page finds when it is opened: <<config, local, remote>>
InitStores ==
    { <<FALSE, NoItem, NoFile>>, <<FALSE, JSONstringify(LegacyDoc0), RemoteDoc0>>,
      <<FALSE, Garbage, NoFile>>, <<FALSE, JSONstringify(JNull), NoFile>>,
      <<TRUE, NoItem, NoFile>>, <<TRUE, NoItem, RemoteDoc0>>,
      <<TRUE, JSONstringify(LegacyDoc0), RemoteDoc0>>,
      <<TRUE, JSONstringify(LegacyDoc0), File(BadBase64)>>,
      <<TRUE, NoItem, RemoteGarbage>>, <<TRUE, Garbage, RemoteDoc0>>,
      <<TRUE, JSONstringify(JNull), NoFile>> }

\* the ids the stored documents hold (what a caller can name in deleteSet)
LogsOf(v) == IF IsArray(v.f.logs) THEN v.f.logs.items ELSE <<>>
StoredDocs ==
    {SEED_DATA} \cup {local.v} \cup {remote.content.text.v}
        \cup {Deref(data[p]) : p \in Procs}
KnownSets ==
    UNION {UNION {{<<LogsOf(v)[i].id, LogsOf(v)[i].sets[j].id>>
                     : j \in 1..Len(LogsOf(v)[i].sets)}
                  : i \in 1..Len(LogsOf(v))} : v \in StoredDocs}

Dates == {"2024-01-01", "2024-01-02"}
OpChoices ==
    {Op("query", "Adam", NoExercise, <<>>, <<>>, "", NoSuchLog, NoSuchSet, 0)}
    \cup {Op("saveExercise", "Adam", Exercise(<<"adam_", "ex_1">>, NameBench, CatChest),
              <<>>, <<>>, "", NoSuchLog, NoSuchSet, 0),
          Op("saveExercise", "Elia", Exercise(<<"n1">>, NameWide, CatLegs),
              <<>>, <<>>, "", NoSuchLog, NoSuchSet, 0)}
    \cup {Op("deleteExercise", "Adam", NoExercise, <<"adam_", "ex_1">>, <<>>, "",
              NoSuchLog, NoSuchSet, 0)}
    \cup {Op("addSet", "Adam", NoExercise, <<>>, <<"adam_", "ex_1">>, dt, NoSuchLog,
              NoSuchSet, r) : dt \in Dates, r \in Randoms}
    \cup {Op("deleteSet", "Adam", NoExercise, <<>>, <<>>, "", ls[1], ls[2], 0)
            : ls \in KnownSets \cup {<<NoSuchLog, NoSuchSet>>}}

\* a slip: the local fallback hands out the parsed document without migrating it
loadFallbackUnmigrated ==
    IF local.k = "none"
    THEN [st |-> "returned", ref |-> SeedRef, src |-> "seed"]
    ELSE LET parsed == JSONparse(local)
         IN IF parsed.st = "threw" \/ parsed.v.t = "null"
            THEN [st |-> "threw", ref |-> NullRef, src |-> "-"]
            ELSE [st |-> "returned", ref |-> OwnRef(parsed.v), src |-> "local"]

\* loadData, lines 116-126: the local cache, else the seed
loadFallback ==
    IF local.k = "none"
    THEN [st |-> "returned", ref |-> SeedRef, src |-> "seed"]
    ELSE LET parsed == JSONparse(local)
         IN IF parsed.st = "threw" THEN [st |-> "threw", ref |-> NullRef, src |-> "-"]
            ELSE LET m == migrateData(parsed.v)
                 IN IF m.st = "threw" THEN [st |-> "threw", ref |-> NullRef, src |-> "-"]
                    ELSE [st |-> "returned", ref |-> OwnRef(m.v), src |-> "local"]

\* loadData, lines 105-107, on the response of a successful GET
loadRemote(content) ==
    LET a == atob(content)
    IN IF a.st = "threw" THEN Threw
       ELSE LET parsed == JSONparse(a.text)
            IN IF parsed.st = "threw" THEN Threw ELSE migrateData(parsed.v)

\* the rest of loadData once the remote leg has failed or was skipped; o is
\* the progress so far and k the operation that called loadData
FallBack(p, o, k) ==
    LET r == loadFallback
    IN /\ UNCHANGED <<local, remote, SEED_DATA, req>>
       /\ IF r.st = "threw"
          THEN /\ pc' = [pc EXCEPT ![p] = "idle"]
               /\ out' = [o EXCEPT ![p] = NoOut]
               /\ op' = [op EXCEPT ![p] = NoOpCall]
               /\ data' = [data EXCEPT ![p] = NullRef]
               /\ hist' = [NoHist EXCEPT !.fin = "load_threw", !.kind = k.kind,
                                         !.get = o[p].get, !.solo = o[p].solo,
                                         !.reqsOk = FALSE, !.putsOk = hist.putsOk]
               /\ UNCHANGED dataCache
          ELSE /\ pc' = [pc EXCEPT ![p] = "loaded"]
               /\ dataCache' = r.ref
               /\ data' = [data EXCEPT ![p] = r.ref]
               /\ op' = [op EXCEPT ![p] = k]
               /\ out' = [o EXCEPT ![p].src = r.src]
               /\ UNCHANGED hist

Others(p) == Procs \ {p}

\* a domain operation is called: loadData runs up to its first await
Invoke(p) ==
    /\ pc[p] = "idle"
    /\ \A q \in Procs : q < p => pc[q] # "idle"   \* the slots are interchangeable
    /\ calls < MaxCalls
    /\ calls' = calls + 1
    /\ \E o \in OpChoices :
         LET alone == \A q \in Others(p) : pc[q] = "idle"
             o1 == [q \in Procs |->
                      IF q = p
                      THEN [NoOut EXCEPT !.solo = alone,
                                         !.after = IF alone THEN hist ELSE NoHist]
                      ELSE [out[q] EXCEPT !.solo = FALSE, !.after = NoHist]]
         IN IF config
            THEN /\ pc' = [pc EXCEPT ![p] = "load_wait"]
                 /\ op' = [op EXCEPT ![p] = o]
                 /\ out' = o1
                 /\ data' = [data EXCEPT ![p] = NullRef]
                 /\ UNCHANGED <<local, remote, SEED_DATA, req, dataCache, hist>>
            ELSE FallBack(p, o1, o)
    /\ UNCHANGED <<config, now, mIn, mOut, mOut2>>

\* a slip: the local backup is not synced on a remote load
loadDataLocalKept(v) == local
\* loadData, line 109: what localStorage[STORAGE_KEY] holds after the sync
loadDataLocal(v) == JSONstringify(v)

\* the GET of loadData is answered
LoadResp(p) ==
    /\ pc[p] = "load_wait"
    /\ \E ok \in BOOLEAN :
         LET got == ok /\ remote.exists
             m == loadRemote(remote.content)
             o1 == [out EXCEPT ![p].get = IF got THEN "ok" ELSE "fail"]
         IN IF got /\ m.st = "returned"
            THEN /\ dataCache' = OwnRef(m.v)
                 /\ local' = loadDataLocal(m.v)
                 /\ data' = [data EXCEPT ![p] = OwnRef(m.v)]
                 /\ pc' = [pc EXCEPT ![p] = "loaded"]
                 /\ out' = [o1 EXCEPT ![p].src = "remote"]
                 /\ UNCHANGED <<remote, SEED_DATA, req, hist, op>>
            ELSE FallBack(p, o1, op[p])
    /\ UNCHANGED <<config, now, calls, mIn, mOut, mOut2>>

\* the body of the operation on the loaded document d, at time t
opBody(o, d, t) ==
    CASE o.kind = "saveExercise" -> saveExerciseBody(d, o.exercise, o.user)
      [] o.kind = "deleteExercise" -> deleteExerciseBody(d, o.id, o.user)
      [] o.kind = "addSet" ->
            addSetBody(d, o.user, o.exerciseId, Weight, Reps, o.date, t, o.rnd)
      [] o.kind = "deleteSet" -> deleteSetBody(d, o.logId, o.setId)
      [] OTHER -> NoOp(d)          \* the queries only read

\* slips in the local write: left to the remote leg; made only when syncing;
\* skipped when the cache already holds a document
saveDataLocalOnlyMode(d) == IF config THEN local ELSE JSONstringify(d)
saveDataLocalWhenSynced(d) == IF config THEN JSONstringify(d) ELSE local
saveDataLocalIfAbsent(d) == IF local.k = "none" THEN JSONstringify(d) ELSE local

\* saveData, line 133: what localStorage[STORAGE_KEY] holds after the write
saveDataLocal(d) == JSONstringify(d)

\* an alert of line 159 raised in call p (slip: the failure is only logged)
alertForgotten(o, p) == o
alertIn(o, p) == [o EXCEPT ![p].alerts = @ + 1]

\* the call whose progress is o ran with a config, none of its requests failed
\* and its load returned the remote document
callReqsOk(o) ==
    /\ o.get = "ok" /\ o.src = "remote"
    /\ o.saved => (o.cfg /\ o.shaGet = "ok" /\ o.put # "fail")

\* the call ends: its promise settles with fin, its locals are gone
Complete(p, o, fin) ==
    /\ pc' = [pc EXCEPT ![p] = "idle"]
    /\ data' = [data EXCEPT ![p] = NullRef]
    /\ op' = [op EXCEPT ![p] = NoOpCall]
    /\ out' = [o EXCEPT ![p] = NoOut]
    /\ hist' = [fin |-> fin, kind |-> op[p].kind, src |-> o[p].src, get |-> o[p].get,
                shaGet |-> o[p].shaGet, put |-> o[p].put, alerts |-> o[p].alerts,
                solo |-> o[p].solo, saved |-> o[p].saved, d |-> o[p].d,
                cfg |-> o[p].cfg,
                reqsOk |-> hist.reqsOk /\ callReqsOk(o[p]),
                putsOk |-> hist.putsOk /\ (o[p].saved => o[p].put = "ok")]

\* the caller resumes after `await loadData()`: the body mutates the document in
\* place and calls saveData, which runs up to its first await.  Date.now() is
\* read here: t is now or later.
Body(p) ==
    /\ pc[p] = "loaded"
    /\ \E t \in now..MaxTime :
         /\ (op[p].kind # "addSet") => (t = now)
         /\ now' = t
         /\ LET r == opBody(op[p], Deref(data[p]), t)
                o0 == [out EXCEPT ![p].after = NoHist]
            IN CASE r.st = "threw" ->
                      /\ Complete(p, o0, "threw")
                      /\ UNCHANGED <<local, remote, SEED_DATA, req, dataCache>>
                 [] r.st = "noop" ->
                      /\ Complete(p, o0, "done")
                      /\ UNCHANGED <<local, remote, SEED_DATA, req, dataCache>>
                 [] OTHER ->
                      LET ref == IF data[p].ref = "seed" THEN SeedRef ELSE OwnRef(r.v)
                          o1 == [o0 EXCEPT ![p].saved = TRUE, ![p].d = r.v,
                                           ![p].cfg = config]
                      IN /\ SEED_DATA' = IF data[p].ref = "seed" THEN r.v ELSE SEED_DATA
                         /\ dataCache' = ref
                         /\ local' = saveDataLocal(r.v)
                         /\ UNCHANGED <<remote, req>>
                         /\ IF config
                            THEN /\ pc' = [pc EXCEPT ![p] = "sha_wait"]
                                 /\ data' = [data EXCEPT ![p] = ref]
                                 /\ out' = o1
                                 /\ UNCHANGED <<hist, op>>
                            ELSE Complete(p, o1, "done")
    /\ UNCHANGED <<config, calls, mIn, mOut, mOut2>>

\* a slip: the token of the GET is not passed on to the PUT
putShaForgotten(got, current) == NoSha
\* saveData, lines 139-145 and 154: let sha = ''; sha = current.sha when the GET
\* succeeds; the PUT carries sha || undefined
putSha(got, current) == IF got THEN current ELSE NoSha

\* the GET for the current sha is answered; saveData encodes and issues the PUT
ShaResp(p) ==
    /\ pc[p] = "sha_wait"
    /\ \E ok \in BOOLEAN :
         LET got == ok /\ remote.exists
             sha == putSha(got, blobSha(remote.content))
             content == btoa(JSONstringify(Deref(data[p])))
             o1 == [out EXCEPT ![p].shaGet = IF got THEN "ok" ELSE "fail"]
         IN IF content.st = "threw"
            THEN /\ Complete(p, alertIn(o1, p), "done")
                 /\ UNCHANGED req
            ELSE /\ req' = [req EXCEPT ![p] = [content |-> content.c, sha |-> sha]]
                 /\ pc' = [pc EXCEPT ![p] = "put_wait"]
                 /\ out' = o1
                 /\ UNCHANGED <<hist, data, op>>
    /\ UNCHANGED <<config, local, remote, dataCache, SEED_DATA, now, calls,
                   mIn, mOut, mOut2>>

\* the contents API accepts a PUT that names the file's current sha, or names
\* none when there is no file
putAccepted(r) ==
    IF remote.exists THEN r.sha = blobSha(remote.content) ELSE r.sha = NoSha

\* the PUT is answered
PutResp(p) ==
    /\ pc[p] = "put_wait"
    /\ \E ok \in BOOLEAN :
         IF ok /\ putAccepted(req[p])
         THEN /\ remote' = File(req[p].content)
              /\ Complete(p, [out EXCEPT ![p].put = "ok"], "done")
         ELSE /\ UNCHANGED remote
              /\ Complete(p, alertIn([out EXCEPT ![p].put = "fail"], p), "done")
    /\ req' = [req EXCEPT ![p] = NoReq]
    /\ UNCHANGED <<config, local, dataCache, SEED_DATA, now, calls, mIn, mOut, mOut2>>

\* saveConfig, lines 31-33
SaveConfig ==
    /\ ~config
    /\ config' = TRUE
    /\ hist' = [hist EXCEPT !.solo = FALSE]
    /\ out' = [q \in Procs |-> [out[q] EXCEPT !.solo = FALSE, !.after = NoHist]]
    /\ UNCHANGED <<local, remote, dataCache, SEED_DATA, now, pc, op, data, req, calls,
                   mIn, mOut, mOut2>>

(***************************************************************************)
(* Migration harness: migrateData applied once and twice to a JSON value.  *)
(* Both copies of the function are run: cur is the one loadData uses       *)
(* (part_000), v1 the older copy (src/services/storage.ts).                *)
(***************************************************************************)
NotMigrated == [cur |-> Pending, v1 |-> Pending]

SeqsUpTo(S, n) == UNION {[1..k -> S] : k \in 0..n}
ExercisePool == {Exercise(<<"ex_1">>, NameSquat, CatLegs),
                 Exercise(<<"adam_", "ex_2">>, NameWide, CatChest)}
NonArrays == {Undef, Null, Zero, Num, EmptyStr, Str}
ExerciseFieldValues == NonArrays \cup {Arr(q) : q \in SeqsUpTo(ExercisePool, MaxListLen)}
LogFieldValues == {Undef, Null, Str, Arr(<<>>), Arr(<<Log0>>)}
MigrateInputs ==
    {JNull, JPrim("number"), JPrim("string"), JPrim("boolean"), JPrim("array")}
    \cup {JObj([adamExercises |-> a, eliaExercises |-> e, exercises |-> x, logs |-> l])
            : a \in ExerciseFieldValues, e \in ExerciseFieldValues,
              x \in ExerciseFieldValues, l \in LogFieldValues}

MigrateOnce ==
    /\ mOut = NotMigrated
    /\ mOut' = [cur |-> migrateData(mIn), v1 |-> migrateDataV1(mIn)]
    /\ UNCHANGED <<config, local, remote, dataCache, SEED_DATA, now, pc, op, data, req,
                   out, hist, calls, mIn, mOut2>>

MigrateAgain ==
    /\ mOut # NotMigrated
    /\ mOut2 = NotMigrated
    /\ mOut.cur.st = "returned" \/ mOut.v1.st = "returned"
    /\ mOut2' = [cur |-> IF mOut.cur.st = "returned" THEN migrateData(mOut.cur.v)
                         ELSE Pending,
                 v1 |-> IF mOut.v1.st = "returned" THEN migrateDataV1(mOut.v1.v)
                        ELSE Pending]
    /\ UNCHANGED <<config, local, remote, dataCache, SEED_DATA, now, pc, op, data, req,
                   out, hist, calls, mIn, mOut>>

Init ==
    /\ \E st \in InitStores : config = st[1] /\ local = st[2] /\ remote = st[3]
    /\ dataCache = NullRef
    /\ SEED_DATA = SeedValue
    /\ now = 0
    /\ pc = [p \in Procs |-> "idle"]
    /\ op = [p \in Procs |-> NoOpCall]
    /\ data = [p \in Procs |-> NullRef]
    /\ req = [p \in Procs |-> NoReq]
    /\ out = [p \in Procs |-> NoOut]
    /\ hist = NoHist
    /\ calls = 0
    /\ mIn = JNull
    /\ mOut = NotMigrated
    /\ mOut2 = NotMigrated

Next ==
    \/ \E p \in Procs : Invoke(p)
    \/ \E p \in Procs : LoadResp(p)
    \/ \E p \in Procs : Body(p)
    \/ \E p \in Procs : ShaResp(p)
    \/ \E p \in Procs : PutResp(p)
    \/ SaveConfig

Spec == Init /\ [][Next]_vars

InitMigrate ==
    /\ config = FALSE
    /\ local = NoItem
    /\ remote = NoFile
    /\ dataCache = NullRef
    /\ SEED_DATA = SeedValue
    /\ now = 0
    /\ pc = [p \in Procs |-> "idle"]
    /\ op = [p \in Procs |-> NoOpCall]
    /\ data = [p \in Procs |-> NullRef]
    /\ req = [p \in Procs |-> NoReq]
    /\ out = [p \in Procs |-> NoOut]
    /\ hist = NoHist
    /\ calls = 0
    /\ mIn \in MigrateInputs
    /\ mOut = NotMigrated
    /\ mOut2 = NotMigrated

NextMigrate == MigrateOnce \/ MigrateAgain

SpecMigrate == InitMigrate /\ [][NextMigrate]_vars

(***************************************************************************)
(* Shapes of values.                                                       *)
(***************************************************************************)
\* a document: an object whose two catalogs and logs are arrays
IsDocument(v) ==
    /\ v.t = "object"
    /\ IsArray(v.f.adamExercises) /\ IsArray(v.f.eliaExercises) /\ IsArray(v.f.logs)
EmptyDocument == AppData(Arr(<<>>), Arr(<<>>), Arr(<<>>))
\* an object each of whose expected fields is absent or an array
ArrayOrAbsent(fv) == fv.t \in {"undef", "arr"}
IsShapedInput(v) ==
    /\ v.t = "object"
    /\ ArrayOrAbsent(v.f.adamExercises) /\ ArrayOrAbsent(v.f.eliaExercises)
    /\ ArrayOrAbsent(v.f.exercises) /\ ArrayOrAbsent(v.f.logs)

\* C9: migrateData is total: on every JSON value it returns, and what it returns
\* is a document (two catalogs and logs, all sequences); on an input with none
\* of the expected fields it returns the empty document.
C9_MigrationTotal ==
    (mOut # NotMigrated) =>
        /\ mOut.cur.st = "returned"
        /\ IsDocument(mOut.cur.v)
        /\ (mIn.f = NoFields => mOut.cur.v = EmptyDocument)

\* C10: migrateData is idempotent: whenever migrateData(x) returns a value,
\* migrateData of that value returns the same value; it returns on every input
\* of current, legacy, mixed or partial shape.  Both copies of the function.
C10_MigrationIdempotent ==
    /\ (mOut # NotMigrated /\ IsShapedInput(mIn)) =>
           (mOut.cur.st = "returned" /\ mOut.v1.st = "returned")
    /\ (mOut2 # NotMigrated) =>
           /\ (mOut.cur.st = "returned" => mOut2.cur = mOut.cur)
           /\ (mOut.v1.st = "returned" => mOut2.v1 = mOut.v1)

\* C10 witness: a legacy document with a shared list has been migrated twice and
\* the per-user ids carry the prefix once
C10_Witness ==
    /\ mOut2 # NotMigrated
    /\ ~Truthy(mIn.f.adamExercises) /\ ~Truthy(mIn.f.eliaExercises)
    /\ IsArray(mIn.f.exercises) /\ Len(mIn.f.exercises.items) > 0
    /\ mOut2.cur.st = "returned"
    /\ mOut2.cur.v.f.adamExercises.items[1].id = <<"adam_">> \o mIn.f.exercises.items[1].id

(***************************************************************************)
(* The coordinator: load and save.                                         *)
(***************************************************************************)
\* call p's loadData has returned right after a save that ran alone, and no
\* other call or saveConfig came in between
LoadedAfterSave(p) ==
    /\ pc[p] = "loaded"
    /\ out[p].solo
    /\ out[p].after.fin = "done" /\ out[p].after.saved /\ out[p].after.solo

\* C1: round trip.  After save(d) has completed, a load with nothing in between
\* returns d: (a) with a config when every remote request of the save and of
\* the load succeeded, (b) in local-only mode.
C1_RoundTrip ==
    \A p \in Procs :
        LET s == out[p].after
        IN (/\ LoadedAfterSave(p)
            /\ \/ s.cfg /\ s.shaGet # "fail" /\ s.put # "fail" /\ out[p].get = "ok"
               \/ ~s.cfg /\ ~config)
           => Deref(data[p]) = s.d

\* C2: remote failures lose no data.  After a save(d) whose token fetch or put
\* failed, a later load returns d, the remote being reachable or not.  (Stated
\* for the saves that issued their put, so that the encoding plays no part.)
C2_NoDataLoss ==
    \A p \in Procs :
        LET s == out[p].after
        IN (/\ LoadedAfterSave(p)
            /\ s.cfg /\ s.put # "-"
            /\ s.shaGet = "fail" \/ s.put = "fail")
           => Deref(data[p]) = s.d

\* C3: load never fails outward: no call ends with loadData raising an error.
C3_LoadNeverFails == hist.fin # "load_threw"

\* the document call p passes to saveData in this step (the step leaves "loaded"
\* having saved): it is in out'[p], or in hist' when the call also completes
SavesInStep(p) ==
    /\ pc[p] = "loaded"
    /\ (pc'[p] = "sha_wait" /\ out'[p].saved) \/ (pc'[p] = "idle" /\ hist'.saved)
SavedInStep(p) == IF pc'[p] = "idle" THEN hist'.d ELSE out'[p].d
RemoteLegStep(p) == pc[p] \in {"sha_wait", "put_wait"} /\ pc'[p] # pc[p]

\* C4: in every execution of save(d), dataCache is set to d and d is written to
\* the local cache in the step that enters saveData, before any request of that
\* save is issued (the requests are issued from that step on), with or without a
\* config; the steps of the remote leg leave both as they are.
C4_LocalWriteFirst ==
    [][\A p \in Procs :
          /\ SavesInStep(p) =>
                /\ local' = JSONstringify(SavedInStep(p))
                /\ dataCache'.ref # "null"
                /\ Deref(dataCache)' = SavedInStep(p)
          /\ (pc'[p] \in {"sha_wait", "put_wait"} /\ pc[p] # "put_wait" /\ pc[p] # "sha_wait")
                => SavesInStep(p)
          /\ RemoteLegStep(p) => (local' = local /\ dataCache' = dataCache)]_vars

\* C4 witness: a save with a config awaits its first request and the local
\* cache and dataCache already hold its document
C4_Witness ==
    \E p \in Procs :
        /\ pc[p] = "sha_wait" /\ out[p].saved /\ out[p].cfg
        /\ local = JSONstringify(out[p].d)
        /\ Deref(dataCache) = out[p].d

\* C5: a save whose remote leg fails still completes normally, rolls nothing
\* back (the local cache and dataCache are as the save wrote them) and raises
\* the notice exactly once; a save whose put succeeds, or that runs without a
\* config, raises none.
C5_RemoteFailureNotice ==
    [][\A p \in Procs :
          /\ (RemoteLegStep(p) /\ pc'[p] = "idle") =>
                /\ hist'.fin = "done"
                /\ local' = local /\ dataCache' = dataCache /\ SEED_DATA' = SEED_DATA
                /\ hist'.alerts = (IF hist'.put = "ok" THEN 0 ELSE 1)
                /\ hist'.solo => (local' = JSONstringify(hist'.d)
                                  /\ Deref(dataCache)' = hist'.d)
          /\ (SavesInStep(p) /\ pc'[p] = "idle") =>
                (hist'.fin = "done" /\ ~hist'.cfg /\ hist'.alerts = 0)]_vars

\* C5 witness: a save that ran alone has completed, its put failed, one notice
\* was raised and the local cache holds its document
C5_Witness ==
    /\ hist.fin = "done" /\ hist.saved /\ hist.solo /\ hist.put = "fail"
    /\ hist.alerts = 1
    /\ local = JSONstringify(hist.d)
    /\ \A p \in Procs : pc[p] = "idle"

(***************************************************************************)
(* The documents the three tiers hold.                                     *)
(***************************************************************************)
HeldDocs ==
    (IF dataCache.ref = "null" THEN {} ELSE {Deref(dataCache)})
    \cup (IF local.k = "json" THEN {local.v} ELSE {})
    \cup (IF remote.exists /\ remote.content.enc = "b64" /\ remote.content.text.k = "json"
          THEN {remote.content.text.v} ELSE {})

SameKey(l, user, exerciseId, date) ==
    l.user = user /\ l.exerciseId = exerciseId /\ l.date = date
NaturalKey(v) ==
    \A i, j \in 1..Len(LogsOf(v)) :
        (i # j) => ~SameKey(LogsOf(v)[i], LogsOf(v)[j].user, LogsOf(v)[j].exerciseId,
                            LogsOf(v)[j].date)
NoEmptyLog(v) == \A i \in 1..Len(LogsOf(v)) : Len(LogsOf(v)[i].sets) > 0

\* what an addSet step does to the logs of the document it loaded
AddSetEffect(p) ==
    LET before == LogsOf(Deref(data[p]))
        after == LogsOf(SavedInStep(p))
        o == op[p]
        hits == {i \in 1..Len(before) : SameKey(before[i], o.user, o.exerciseId, o.date)}
    IN IF hits # {}
       THEN /\ Len(after) = Len(before)
            /\ \E i \in hits :
                 /\ Len(after[i].sets) = Len(before[i].sets) + 1
                 /\ SubSeq(after[i].sets, 1, Len(before[i].sets)) = before[i].sets
                 /\ \A j \in 1..Len(before) : (j # i) => after[j] = before[j]
       ELSE /\ Len(after) = Len(before) + 1
            /\ SubSeq(after, 1, Len(before)) = before
            /\ SameKey(after[Len(after)], o.user, o.exerciseId, o.date)
            /\ Len(after[Len(after)].sets) = 1

\* C6: natural key.  Every document held by dataCache, the local cache or the
\* remote store has at most one log per (user, exerciseId, date), under every
\* interleaving of the calls; addSet on a triple that has a log appends one set
\* to it and keeps the number of logs, addSet on a triple without a log adds one
\* log holding that one set.
C6_NaturalKey ==
    /\ [](\A v \in HeldDocs : NaturalKey(v))
    /\ [][\A p \in Procs :
             (SavesInStep(p) /\ op[p].kind = "addSet") => AddSetEffect(p)]_vars

\* C6 witness: the local cache holds a document in which addSet has appended a
\* second set to a log and has added a second log for another date
C6_Witness ==
    /\ local.k = "json"
    /\ Len(LogsOf(local.v)) = 2
    /\ \E i \in 1..2 : Len(LogsOf(local.v)[i].sets) = 2
    /\ LogsOf(local.v)[1].user = LogsOf(local.v)[2].user
    /\ LogsOf(local.v)[1].date # LogsOf(local.v)[2].date

\* what a deleteSet step that empties its log does
DeleteSetEffect(p) ==
    LET before == LogsOf(Deref(data[p]))
        doc == SavedInStep(p)
        i == findIndex({k \in 1..Len(before) : before[k].id = op[p].logId})
    IN (i > 0 /\ \A k \in 1..Len(before[i].sets) : before[i].sets[k].id = op[p].setId)
       => LET shown == getAllLogsForExercise(doc, before[i].exerciseId)
          IN /\ \A k \in 1..Len(LogsOf(doc)) : LogsOf(doc)[k].id # op[p].logId
             /\ \A k \in 1..Len(shown) : shown[k].id # op[p].logId

\* C7: no empty log.  No document held by dataCache, the local cache or the
\* remote store has a log without sets; a deleteSet that removes the last set of
\* a log removes the log, and getAllLogsForExercise does not return it.
C7_NoEmptyLog ==
    /\ [](\A v \in HeldDocs : NoEmptyLog(v))
    /\ [][\A p \in Procs :
             (SavesInStep(p) /\ op[p].kind = "deleteSet") => DeleteSetEffect(p)]_vars

\* C7 witness: a deleteSet has removed the only set of the only log, and the
\* saved document has no log left
C7_Witness ==
    /\ hist.kind = "deleteSet" /\ hist.fin = "done" /\ hist.saved
    /\ local = JSONstringify(hist.d)
    /\ IsArray(hist.d.f.logs) /\ Len(LogsOf(hist.d)) = 0

\* C8: fallback to seed.  Whenever no config is stored and the local cache is
\* empty, loadData returns SEED_DATA, and SEED_DATA is the seed as built: four
\* exercises for each user, ids namespaced per user, no logs.
C8_FallbackToSeed ==
    (~config /\ local.k = "none") =>
        /\ loadFallback.st = "returned" /\ loadFallback.ref = SeedRef
        /\ LET d == Deref(loadFallback.ref)
           IN /\ d = SeedValue
              /\ Len(d.f.adamExercises.items) = 4 /\ Len(d.f.eliaExercises.items) = 4
              /\ \A i \in 1..4 : /\ d.f.adamExercises.items[i].id[1] = "adam_"
                                 /\ d.f.eliaExercises.items[i].id[1] = "elia_"
              /\ d.f.logs = Arr(<<>>)

\* C8 witness: with no config and an empty local cache, a deleteSet has run (it
\* found no log) and a later call has got the seed from loadData
C8_Witness ==
    /\ ~config /\ local.k = "none"
    /\ hist.kind = "deleteSet" /\ hist.fin = "done"
    /\ \E p \in Procs : pc[p] = "loaded" /\ data[p] = SeedRef /\ Deref(data[p]) = SeedValue

(***************************************************************************)
(* Migration: the legacy split.                                            *)
(***************************************************************************)
\* a legacy document: a shared list and no per-user list
IsLegacy(v) ==
    /\ v.t = "object"
    /\ ~Truthy(v.f.adamExercises) /\ ~Truthy(v.f.eliaExercises)
    /\ IsArray(v.f.exercises)

\* r is the split of the legacy document v
IsSplitOf(r, v) ==
    LET shared == v.f.exercises.items
        adam == r.v.f.adamExercises
        elia == r.v.f.eliaExercises
    IN /\ r.st = "returned"
       /\ IsArray(adam) /\ IsArray(elia)
       /\ Len(adam.items) = Len(shared) /\ Len(elia.items) = Len(shared)
       /\ \A i \in 1..Len(shared) :
            /\ adam.items[i].name = shared[i].name
            /\ adam.items[i].category = shared[i].category
            /\ adam.items[i].id = <<"adam_">> \o shared[i].id
            /\ elia.items[i].name = shared[i].name
            /\ elia.items[i].category = shared[i].category
            /\ elia.items[i].id = <<"elia_">> \o shared[i].id
       /\ \A i, j \in 1..Len(shared) : adam.items[i].id # elia.items[j].id
       /\ IsArray(v.f.logs) => r.v.f.logs = v.f.logs

\* C11: legacy split.  For every legacy document migrateData returns a document
\* whose per-user lists have the length and order of the shared list, keep each
\* name and category, carry the user's prefix before the original id, share no
\* id, and whose logs are the input's logs.  Both copies of the function.
C11_LegacySplit ==
    (mOut # NotMigrated /\ IsLegacy(mIn)) =>
        (IsSplitOf(mOut.cur, mIn) /\ IsSplitOf(mOut.v1, mIn))

\* C11 witness: a legacy document with two shared exercises, one of them with an
\* id that already starts with a user's prefix, and one log has been migrated
C11_Witness ==
    /\ mOut # NotMigrated /\ IsLegacy(mIn)
    /\ Len(mIn.f.exercises.items) = 2
    /\ mIn.f.exercises.items[1].id # mIn.f.exercises.items[2].id
    /\ mIn.f.logs = Arr(<<Log0>>)
    /\ mOut.cur.v.f.logs = Arr(<<Log0>>)

(***************************************************************************)
(* The comparison query.  getLogsForComparison reads the loaded document   *)
(* and returns a list of logs; the harness applies it to documents whose   *)
(* catalogs hold equal names under different ids, equal ids under          *)
(* different names, and the empty id.                                      *)
(***************************************************************************)
MaxCatalogLen == 2   \* comparison harness: exercises per catalog

EmptyId == <<>>      \* the id '' (falsy: dropped by filter(Boolean))
LogsResult(logs) == [st |-> "returned", logs |-> logs]
LogsThrew == [st |-> "threw", logs |-> <<>>]

\* Array.prototype.find on a catalog: the id of the first exercise with the
\* name, as a set (empty for undefined); filter(Boolean) drops the id ''
foundId(items, exerciseName) ==
    LET idx == findIndex({k \in 1..Len(items) : items[k].name = exerciseName})
    IN IF idx = 0 \/ items[idx].id = EmptyId THEN {} ELSE {items[idx].id}

\* a slip: only the first catalog is searched
getLogsForComparisonAdamOnly(d, exerciseName) ==
    IF ~IsArray(d.f.adamExercises) \/ ~IsArray(d.f.eliaExercises) \/ ~IsArray(d.f.logs)
    THEN LogsThrew
    ELSE LET matchingIds == foundId(d.f.adamExercises.items, exerciseName)
         IN LogsResult(SelectSeq(d.f.logs.items, LAMBDA l : l.exerciseId \in matchingIds))

getLogsForComparison(d, exerciseName) ==
    IF ~IsArray(d.f.adamExercises) \/ ~IsArray(d.f.eliaExercises) \/ ~IsArray(d.f.logs)
    THEN LogsThrew       \* .find / .filter is not a function
    ELSE LET matchingIds == foundId(d.f.adamExercises.items, exerciseName)
                              \cup foundId(d.f.eliaExercises.items, exerciseName)
         IN LogsResult(SelectSeq(d.f.logs.items, LAMBDA l : l.exerciseId \in matchingIds))

ComparePool ==
    {Exercise(<<"a1">>, NameSquat, CatLegs), Exercise(<<"a2">>, NameSquat, CatLegs),
     Exercise(<<"a2">>, NameBench, CatChest), Exercise(EmptyId, NameSquat, CatLegs)}
CompareLogs ==
    << WorkoutLog(1, <<"a1">>, "Adam", "2024-01-01", <<WorkoutSet(<<1, 0>>, Weight, Reps, 1)>>),
       WorkoutLog(2, <<"a2">>, "Elia", "2024-01-01", <<WorkoutSet(<<2, 0>>, Weight, Reps, 2)>>),
       WorkoutLog(3, EmptyId, "Adam", "2024-01-02", <<WorkoutSet(<<3, 0>>, Weight, Reps, 3)>>) >>
\* the logs of the document: any of the three, in this order
CompareLogLists ==
    {SelectSeq(CompareLogs, LAMBDA l : l.id \in keep) : keep \in SUBSET {1, 2, 3}}
CompareInputs ==
    {[doc |-> AppData(a, e, Arr(l)), name |-> NameSquat]
       : a \in {Arr(q) : q \in SeqsUpTo(ComparePool, MaxCatalogLen)} \cup {Str},
         e \in {Arr(q) : q \in SeqsUpTo(ComparePool, MaxCatalogLen)},
         l \in CompareLogLists}

Compare ==
    /\ mOut = NotMigrated
    /\ mOut' = getLogsForComparison(mIn.doc, mIn.name)
    /\ UNCHANGED <<config, local, remote, dataCache, SEED_DATA, now, pc, op, data, req,
                   out, hist, calls, mIn, mOut2>>

InitCompare ==
    /\ config = FALSE
    /\ local = NoItem
    /\ remote = NoFile
    /\ dataCache = NullRef
    /\ SEED_DATA = SeedValue
    /\ now = 0
    /\ pc = [p \in Procs |-> "idle"]
    /\ op = [p \in Procs |-> NoOpCall]
    /\ data = [p \in Procs |-> NullRef]
    /\ req = [p \in Procs |-> NoReq]
    /\ out = [p \in Procs |-> NoOut]
    /\ hist = NoHist
    /\ calls = 0
    /\ mIn \in CompareInputs
    /\ mOut = NotMigrated
    /\ mOut2 = NotMigrated

NextCompare == Compare

SpecCompare == InitCompare /\ [][NextCompare]_vars

\* the ids of the exercises of a catalog that carry the name
IdsNamed(fv, exerciseName) ==
    {fv.items[k].id : k \in {i \in 1..Len(fv.items) : fv.items[i].name = exerciseName}}
\* the id of the exercise that is the first of its catalog to carry the name
FirstIdsNamed(fv, exerciseName) ==
    {fv.items[k].id : k \in {i \in 1..Len(fv.items) :
        /\ fv.items[i].name = exerciseName
        /\ \A j \in 1..(i - 1) : fv.items[j].name # exerciseName}}
\* the ids a catalog holds under another name
IdsNotNamed(fv, exerciseName) ==
    {fv.items[k].id : k \in {i \in 1..Len(fv.items) : fv.items[i].name # exerciseName}}
Compared == mOut # NotMigrated /\ mOut.st = "returned"

NoEmptyIds(fv) == \A k \in 1..Len(fv.items) : fv.items[k].id # EmptyId

\* C12: comparison query.  getLogsForComparison(name) returns exactly the logs
\* whose exerciseId is the id of an exercise with that name in either catalog,
\* and none whose exerciseId belongs to an exercise of a different name.
\* (Stated for catalogs without the id '', so that filter(Boolean) plays no part.)
C12_ComparisonQuery ==
    (/\ Compared
     /\ NoEmptyIds(mIn.doc.f.adamExercises) /\ NoEmptyIds(mIn.doc.f.eliaExercises)) =>
        LET d == mIn.doc
            ids == IdsNamed(d.f.adamExercises, mIn.name)
                     \cup IdsNamed(d.f.eliaExercises, mIn.name)
            others == IdsNotNamed(d.f.adamExercises, mIn.name)
                        \cup IdsNotNamed(d.f.eliaExercises, mIn.name)
        IN /\ mOut.logs = SelectSeq(d.f.logs.items, LAMBDA l : l.exerciseId \in ids)
           /\ \A i \in 1..Len(mOut.logs) : mOut.logs[i].exerciseId \notin others

\* C12 amended: whenever it returns, getLogsForComparison(name) returns, in
\* document order, exactly the logs whose exerciseId is the non-empty id of the
\* first exercise with that name in Adam's catalog or of the first with that
\* name in Elia's catalog; so when each user owns one exercise with that name
\* under a different id, the logs of both ids are returned.
C12_ComparisonFirstMatch ==
    Compared =>
        LET d == mIn.doc
            ids == (FirstIdsNamed(d.f.adamExercises, mIn.name)
                      \cup FirstIdsNamed(d.f.eliaExercises, mIn.name)) \ {EmptyId}
        IN mOut.logs = SelectSeq(d.f.logs.items, LAMBDA l : l.exerciseId \in ids)

\* C12 witness: each user owns one exercise of the name under a different id,
\* the document has a log of each id, and both logs are returned
C12_Witness ==
    /\ Compared
    /\ Len(mIn.doc.f.adamExercises.items) = 1 /\ Len(mIn.doc.f.eliaExercises.items) = 1
    /\ mIn.doc.f.adamExercises.items[1].id = <<"a1">>
    /\ mIn.doc.f.eliaExercises.items[1].id = <<"a2">>
    /\ mIn.doc.f.eliaExercises.items[1].name = mIn.name
    /\ Len(mOut.logs) = 2 /\ mOut.logs[1].exerciseId # mOut.logs[2].exerciseId

(***************************************************************************)
(* Concurrent calls.                                                       *)
(***************************************************************************)
InRemoteLeg(q) == pc[q] \in {"sha_wait", "put_wait"}
\* no call is between its invocation and its save
NoneLoading == \A q \in Procs : pc[q] \in {"idle", "sha_wait", "put_wait"}
\* the logs addSet has created in document v (the stored ones have ids below 0)
NewLogs(v) == {LogsOf(v)[i] : i \in {k \in 1..Len(LogsOf(v)) : LogsOf(v)[k].id >= 0}}

\* C13: last writer wins.  When a call saves while another call, invoked before
\* it completed, has already saved, the local cache becomes exactly the document
\* passed to this second save; nothing but a later load or save changes the local
\* cache, so it still holds that document when both calls have completed; a call
\* that has saved completes normally.
C13_LastWriterWins ==
    [][/\ \A p \in Procs :
            (SavesInStep(p) /\ \E q \in Others(p) : InRemoteLeg(q) /\ out[q].saved)
                => local' = JSONstringify(SavedInStep(p))
       /\ (NoneLoading /\ NoneLoading') => local' = local
       /\ \A p \in Procs :
            (pc[p] # "idle" /\ pc'[p] = "idle" /\ hist'.saved) => hist'.fin = "done"]_vars

\* C13 witness: two addSet calls ran concurrently and both have completed; the
\* one that completed last had saved first, and the log it added is absent from
\* the local cache, which holds the other call's document
C13_Witness ==
    /\ \A p \in Procs : pc[p] = "idle"
    /\ calls = 2
    /\ hist.kind = "addSet" /\ hist.fin = "done" /\ hist.saved /\ ~hist.solo
    /\ local.k = "json"
    /\ NewLogs(hist.d) # {} /\ NewLogs(local.v) # {}
    /\ NewLogs(hist.d) \cap NewLogs(local.v) = {}

(***************************************************************************)
(* The remote write protocol of saveData.                                  *)
(***************************************************************************)
\* the version token of the remote file as it is now
CurrentSha == IF remote.exists THEN blobSha(remote.content) ELSE NoSha

\* C14: remote write protocol.  A save with a config issues one token fetch and
\* then at most one put, and never another request; the put carries the token
\* the fetch returned when it succeeded and none when the file was absent (or
\* the fetch failed); a put that is rejected is not retried: the call ends with
\* the remote unchanged; the remote file is only replaced by the content of a
\* put whose token is the remote's current version token.
C14_RemoteWriteProtocol ==
    [][/\ \A p \in Procs :
            /\ (pc'[p] = "sha_wait" /\ pc[p] # "sha_wait") => pc[p] = "loaded"
            /\ (pc'[p] = "put_wait" /\ pc[p] # "put_wait") => pc[p] = "sha_wait"
            /\ (pc[p] = "sha_wait" /\ pc'[p] # "sha_wait") => pc'[p] \in {"put_wait", "idle"}
            /\ (pc[p] = "put_wait" /\ pc'[p] # "put_wait") => pc'[p] = "idle"
            /\ (pc[p] = "put_wait" /\ pc'[p] = "put_wait") => req'[p] = req[p]
            /\ (pc[p] = "sha_wait" /\ pc'[p] = "put_wait") =>
                  /\ out'[p].shaGet = "ok" => (remote.exists /\ req'[p].sha = CurrentSha)
                  /\ out'[p].shaGet = "fail" => req'[p].sha = NoSha
                  /\ ~remote.exists => req'[p].sha = NoSha
            /\ (pc[p] = "put_wait" /\ pc'[p] = "idle" /\ req[p].sha # CurrentSha) =>
                  (remote' = remote /\ hist'.put = "fail" /\ hist'.alerts = 1)
       /\ (remote' # remote) =>
             \E p \in Procs : /\ pc[p] = "put_wait" /\ pc'[p] = "idle"
                              /\ req[p].sha = CurrentSha
                              /\ remote' = File(req[p].content)]_vars

\* C14 witness: a put in flight carries a token that its fetch returned and that
\* another call's put has made stale
C14_Witness ==
    \E p \in Procs :
        /\ pc[p] = "put_wait" /\ out[p].shaGet = "ok"
        /\ req[p].sha # NoSha /\ req[p].sha # CurrentSha

(***************************************************************************)
(* What loadData writes.                                                   *)
(***************************************************************************)
\* call p's loadData returns in this step
LoadReturns(p) == pc[p] \in {"idle", "load_wait"} /\ pc'[p] = "loaded"

\* C15: what load writes.  When loadData returns the remote document it sets
\* dataCache to it and overwrites the local cache with it; when it falls back to
\* the local cache or to the seed it leaves the local cache as it is; it never
\* writes the remote store; so after a load that returned the seed the local
\* cache is still empty.
C15_WhatLoadWrites ==
    [][\A p \in Procs : LoadReturns(p) =>
          /\ remote' = remote
          /\ out'[p].src = "remote" =>
                /\ remote.exists
                /\ Returned(Deref(data[p])') = loadRemote(remote.content)
                /\ dataCache' = data'[p]
                /\ local' = JSONstringify(Deref(data[p])')
          /\ out'[p].src \in {"local", "seed"} => local' = local
          /\ out'[p].src = "seed" =>
                (data'[p] = SeedRef /\ local'.k = "none" /\ SEED_DATA' = SEED_DATA)]_vars

\* C15 witness: a save whose put failed left its document in the local cache;
\* the next load returned the remote document, another one, and the local
\* cache now holds that
C15_Witness ==
    \E p \in Procs :
        /\ LoadedAfterSave(p) /\ out[p].src = "remote"
        /\ out[p].after.d # Deref(data[p])
        /\ local = JSONstringify(Deref(data[p]))
        /\ dataCache = data[p]

(***************************************************************************)
(* Generated ids.                                                          *)
(***************************************************************************)
\* C16: generated ids are unique.  In every document held by dataCache, the
\* local cache or the remote store, any two distinct logs have different ids.
\* (Stated for the log ids, which no random draw enters.)
C16_GeneratedIdsUnique ==
    \A v \in HeldDocs :
        \A i, j \in 1..Len(LogsOf(v)) : (i # j) => LogsOf(v)[i].id # LogsOf(v)[j].id

(***************************************************************************)
(* Migration: the current shape.                                           *)
(***************************************************************************)
\* both per-user lists are sequences and there is no legacy list
IsCurrentShape(v) ==
    /\ v.t = "object"
    /\ IsArray(v.f.adamExercises) /\ IsArray(v.f.eliaExercises)
    /\ v.f.exercises = Undef

\* r passes the document v through, filling missing logs
PassesThrough(r, v) ==
    /\ r.st = "returned"
    /\ r.v.f.adamExercises = v.f.adamExercises
    /\ r.v.f.eliaExercises = v.f.eliaExercises
    /\ IsArray(v.f.logs) => r.v.f.logs = v.f.logs
    /\ v.f.logs = Undef => r.v.f.logs = Arr(<<>>)

\* C17: current-shape pass-through.  For every input with both per-user lists
\* (even empty) and no legacy list, migrateData returns the same two lists and
\* the same logs, and an empty logs sequence when the input has no logs field.
\* Both copies of the function.
C17_PassThrough ==
    (mOut # NotMigrated /\ IsCurrentShape(mIn)) =>
        (PassesThrough(mOut.cur, mIn) /\ PassesThrough(mOut.v1, mIn))

(***************************************************************************)
(* The catalog operations.                                                 *)
(***************************************************************************)
OtherUser(user) == IF user = "Adam" THEN "Elia" ELSE "Adam"
IdsOf(fv) == {fv.items[k].id : k \in 1..Len(fv.items)}

\* C18: deleteExercise(id, user) saves a document in which the user's catalog is
\* the old one without the exercises of that id, in the old order, and nothing
\* else differs: the other user's catalog and the logs are the old ones, so the
\* logs that reference the removed id stay.
C18_DeleteExerciseFrame ==
    [][\A p \in Procs :
          (SavesInStep(p) /\ op[p].kind = "deleteExercise") =>
              LET before == Deref(data[p])
                  after == SavedInStep(p)
                  user == op[p].user
              IN /\ op[p].id \notin IdsOf(catalog(after, user))
                 /\ catalog(after, user).items =
                        SelectSeq(catalog(before, user).items, LAMBDA e : e.id # op[p].id)
                 /\ catalog(after, OtherUser(user)) = catalog(before, OtherUser(user))
                 /\ after.f.logs = before.f.logs]_vars

\* C18 witness: a deleteExercise has completed; the saved document no longer
\* has the exercise and still has a log that references it
C18_Witness ==
    /\ hist.kind = "deleteExercise" /\ hist.fin = "done" /\ hist.saved
    /\ <<"adam_", "ex_1">> \notin IdsOf(hist.d.f.adamExercises)
    /\ \E i \in 1..Len(LogsOf(hist.d)) : LogsOf(hist.d)[i].exerciseId = <<"adam_", "ex_1">>
    /\ local = JSONstringify(hist.d)

UniqueIds(fv) ==
    IsArray(fv) => \A i, j \in 1..Len(fv.items) : (i # j) => fv.items[i].id # fv.items[j].id

\* what a saveExercise step does to the user's catalog
SaveExerciseEffect(p) ==
    LET before == catalog(Deref(data[p]), op[p].user).items
        after == catalog(SavedInStep(p), op[p].user).items
        hits == {k \in 1..Len(before) : before[k].id = op[p].exercise.id}
    IN IF hits # {}
       THEN /\ Len(after) = Len(before)
            /\ \E i \in hits : /\ after[i] = op[p].exercise
                               /\ \A j \in 1..Len(before) : (j # i) => after[j] = before[j]
       ELSE after = Append(before, op[p].exercise)

\* C19: catalog id uniqueness.  In every document held by dataCache, the local
\* cache or the remote store the ids are unique within each user's catalog;
\* saveExercise with an id the catalog has replaces that exercise in place and
\* keeps the length, and with a new id appends the exercise at the end.
C19_CatalogIdsUnique ==
    /\ [](\A v \in HeldDocs : UniqueIds(v.f.adamExercises) /\ UniqueIds(v.f.eliaExercises))
    /\ [][\A p \in Procs :
             (SavesInStep(p) /\ op[p].kind = "saveExercise") => SaveExerciseEffect(p)]_vars

\* C19 witness: on the migrated local document one saveExercise has replaced
\* Adam's exercise in place and another has appended a new one to Elia's catalog
C19_Witness ==
    /\ local.k = "json"
    /\ IsArray(local.v.f.adamExercises) /\ IsArray(local.v.f.eliaExercises)
    /\ local.v.f.adamExercises.items = <<Exercise(<<"adam_", "ex_1">>, NameBench, CatChest)>>
    /\ Len(local.v.f.eliaExercises.items) = 2
    /\ local.v.f.eliaExercises.items[2].id = <<"n1">>

(***************************************************************************)
(* Local cache and remote store.                                           *)
(***************************************************************************)
AllCompleted == calls > 0 /\ \A p \in Procs : pc[p] = "idle"

\* C20: local and remote converge.  With a config stored and every remote
\* request answered successfully, once all invoked operations have completed
\* the remote store holds the document the local cache holds.
C20_LocalRemoteConverge ==
    (AllCompleted /\ config /\ hist.reqsOk) =>
        (remote.exists /\ remote.content = [enc |-> "b64", text |-> local])

(***************************************************************************)
(* dataCache and the local cache.                                          *)
(***************************************************************************)
\* some load has fallen back to the seed: a running call's, or the last completed one's
SeedLoadSeen == hist.src = "seed" \/ \E p \in Procs : out[p].src = "seed"

\* C21: cache coherence.  Between any two steps of the calls (at every
\* suspension point and after every completed load or save), when dataCache is
\* populated and the local cache holds a document, dataCache equals the
\* migration of that document; when dataCache is populated and the local cache
\* is empty, dataCache is the seed object, handed out by a load that fell back
\* to the seed.
C21_CacheCoherence ==
    (dataCache.ref # "null") =>
        /\ local.k = "json" => migrateData(local.v) = Returned(Deref(dataCache))
        /\ local.k = "none" => (dataCache = SeedRef /\ SeedLoadSeen)

\* C21 witness: the local cache holds a legacy document and a load has put its
\* migration, another value, into dataCache
C21_Witness ==
    /\ dataCache.ref = "own"
    /\ local = JSONstringify(LegacyDoc0)
    /\ Deref(dataCache) = Doc0
    /\ \E p \in Procs : pc[p] = "loaded" /\ out[p].src = "local"

(***************************************************************************)
(* deleteSet on a document.  The harness applies the body of deleteSet to  *)
(* documents addSet can have built: one log per (user, exercise, date), no *)
(* empty log, and log ids that are timestamps, so that two logs created in *)
(* the same millisecond share an id.                                       *)
(***************************************************************************)
MaxLogs == 2     \* deleteSet harness: logs in the document

SetA == WorkoutSet(<<1, 0>>, Weight, Reps, 1)
SetB == WorkoutSet(<<1, 1>>, Weight, Reps, 1)
DeleteSetLogs ==
    {WorkoutLog(id, <<"adam_", "ex_1">>, "Adam", dt, sets)
       : id \in {1, 2}, dt \in Dates, sets \in {<<SetA>>, <<SetB>>, <<SetA, SetB>>}}
DeleteSetDocs ==
    {v \in {AppData(Doc0.f.adamExercises, Doc0.f.eliaExercises, Arr(l))
              : l \in SeqsUpTo(DeleteSetLogs, MaxLogs)} : NaturalKey(v)}
DeleteSetInputs ==
    {[doc |-> v, logId |-> id, setId |-> s.id]
       : v \in DeleteSetDocs, id \in {1, 2, 3}, s \in {SetA, SetB}}

DeleteSet ==
    /\ mOut = NotMigrated
    /\ mOut' = deleteSetBody(mIn.doc, mIn.logId, mIn.setId)
    /\ UNCHANGED <<config, local, remote, dataCache, SEED_DATA, now, pc, op, data, req,
                   out, hist, calls, mIn, mOut2>>

InitDeleteSet ==
    /\ config = FALSE
    /\ local = NoItem
    /\ remote = NoFile
    /\ dataCache = NullRef
    /\ SEED_DATA = SeedValue
    /\ now = 0
    /\ pc = [p \in Procs |-> "idle"]
    /\ op = [p \in Procs |-> NoOpCall]
    /\ data = [p \in Procs |-> NullRef]
    /\ req = [p \in Procs |-> NoReq]
    /\ out = [p \in Procs |-> NoOut]
    /\ hist = NoHist
    /\ calls = 0
    /\ mIn \in DeleteSetInputs
    /\ mOut = NotMigrated
    /\ mOut2 = NotMigrated

NextDeleteSet == DeleteSet

SpecDeleteSet == InitDeleteSet /\ [][NextDeleteSet]_vars

\* the positions of the logs with the id, and what is left of a log's sets
Named(logs, logId) == {k \in 1..Len(logs) : logs[k].id = logId}
SetsLeft(l, setId) == SelectSeq(l.sets, LAMBDA x : x.id # setId)

\* C22: deleteSet frame.  deleteSet(logId, setId) changes only the named log:
\* afterwards no log with that id holds a set with that id, at most one log is
\* gone, and only when its sets became empty; every log with another id stays,
\* in order, with its sets, and both catalogs are the old ones.  When no log
\* has the id, deleteSet returns early (no error, no save) and the document is
\* unchanged.
C22_DeleteSetFrame ==
    (mOut # NotMigrated) =>
        LET before == LogsOf(mIn.doc)
            after == LogsOf(mOut.v)
            named == Named(before, mIn.logId)
        IN IF named = {}
           THEN mOut = NoOp(mIn.doc)
           ELSE /\ mOut.st = "returned"
                /\ mOut.v.f.adamExercises = mIn.doc.f.adamExercises
                /\ mOut.v.f.eliaExercises = mIn.doc.f.eliaExercises
                /\ \A k \in Named(after, mIn.logId) :
                      \A x \in 1..Len(after[k].sets) : after[k].sets[x].id # mIn.setId
                /\ Len(after) >= Len(before) - 1
                /\ (Len(after) < Len(before)) =>
                      \E k \in named : SetsLeft(before[k], mIn.setId) = <<>>
                /\ SelectSeq(after, LAMBDA l : l.id # mIn.logId)
                      = SelectSeq(before, LAMBDA l : l.id # mIn.logId)

====
